---- MODULE Spec2Model ----
(***************************************************************************)
(* Model of the UnixFS cat operation (src/unixfs/cat.rs): a lazily polled  *)
(* generator that alternates block fetches (Ipfs::get_block) with steps of *)
(* the file visitor (IdleFileVisit::start, FileVisit::continue_walk) and   *)
(* yields Result<Vec<u8>, TraversalFailed> items to its consumer.          *)
(*                                                                         *)
(* One pull is one `stream.next().await` of the consumer.  The generator   *)
(* only runs while a pull is outstanding; it is suspended at an `.await`   *)
(* of get_block (pc = "await38", "await69"), at a `yield` (pc = "yield41", *)
(* "yield50", "yield59", "yield72", "yield81", "yield90"; the number is    *)
(* the source line of the yield), before its first poll (pc = "start") or  *)
(* has returned (pc = "done").  The visitor is synchronous, so a fetch     *)
(* completion and the visitor step on the fetched block are one action.    *)
(*                                                                         *)
(* Spec is one invocation against a BlockSource and a visitor that may     *)
(* answer anything; LiveSpec adds the fairness of a consumer that keeps    *)
(* pulling and of fetches that complete; SpecTwo is two invocations,       *)
(* interleaved at will, against one unchanged store of blocks (FileStore)  *)
(* walked by a visitor that follows the visitor contract (FileWalk).       *)
(***************************************************************************)
EXTENDS Integers, Sequences, FiniteSets, TLC

\* Largest number of get_block calls of one traversal (depth of the files walked).
MaxFetches == 3

\* Content identifiers, fetch failure causes, parse failure causes, file bytes.
Cids == {"Qa", "Qb"}
LoadCauses == {"notfound", "timeout"}
WalkCauses == {"badnode"}
Bytes == {1, 2}

\* Option<Range<u64>>: None, or Some(start..end).
NoRange == [some |-> FALSE, start |-> 0, end |-> 0]
RangeOpts == {NoRange, [some |-> TRUE, start |-> 0, end |-> 1]}

VARIABLES
    cid,        \* the cid argument of cat
    range,      \* the range argument of cat
    pc,         \* where the generator is suspended
    consumer,   \* "idle" (between pulls), "pulling", "dropped" (stream abandoned)
    visit,      \* the visitor state owned by the generator
    held,       \* cids of the fetched blocks the generator owns, oldest first
    inflight,   \* cids of the get_block calls issued and not yet completed
    fetchLog,   \* every get_block call so far: [cid, res, cause]
    emitted,    \* the items the consumer has received, in order
    ended,      \* the consumer has been told the sequence is over
    lastVisit,  \* the latest visitor step: [op, cid, res, bytes, cause]
    visits,     \* number of visitor steps (start, continue_walk) so far
    walked,     \* concatenation of the chunks the visitor has returned so far
    pull,       \* what the current (or latest) pull did: [fetches, visits, items, skips]
    inspected,  \* what source() gave for the error item the consumer inspected last
    source,     \* the BlockSource: "any" (every outcome possible) or "file" (FileStore)
    who,        \* which of two cat invocations the variables above belong to (1 or 2)
    other       \* the variables above of the other invocation, as a record

vars == <<cid, range, pc, consumer, visit, held, inflight, fetchLog, emitted, ended,
          lastVisit, visits, walked, pull, inspected, source, who, other>>

\* What a step of one invocation leaves alone.
aside == <<source, who, other, inspected>>

----------------------------------------------------------------------------
\* Items of the stream: Ok(bytes), Err(Loading(cid, e)), Err(Walking(cid, e)).

OkItem(b) == [kind |-> "Ok", bytes |-> b, cid |-> "", cause |-> ""]

Loading(c, e) == [kind |-> "Loading", bytes |-> <<>>, cid |-> c, cause |-> e]

Walking(c, e) == [kind |-> "Walking", bytes |-> <<>>, cid |-> c, cause |-> e]

IsErr(item) == item.kind \in {"Loading", "Walking"}

\* TraversalFailed::source: None for Loading, Some(cause) for Walking.
SourceNone(item) == [some |-> FALSE, cause |-> ""]

Source(item) ==
    IF item.kind = "Walking" THEN [some |-> TRUE, cause |-> item.cause]
    ELSE [some |-> FALSE, cause |-> ""]

----------------------------------------------------------------------------
\* The visitor (ipfs_unixfs::file::visit), by its contract.

NoVisit == [phase |-> "None", links |-> <<>>, range |-> NoRange, pos |-> 0]

\* IdleFileVisit::default(), then with_target_range when a range is given.
IdleVisitNoRange(r) == [phase |-> "Idle", links |-> <<>>, range |-> NoRange, pos |-> 0]

IdleVisit(r) == [phase |-> "Idle", links |-> <<>>, range |-> r, pos |-> 0]

\* The pending links an Active state can hold: one or two, first to visit first.
LinkSeqs == {<<c>> : c \in Cids} \cup {l \in Cids \X Cids : l[1] # l[2]}

\* What start or continue_walk may return on a state configured with range r, when n
\* fetches were made so far: Ok((bytes, Some(visit))), Ok((bytes, None)) or Err(e).
Chunks == {<<>>} \cup {<<b>> : b \in Bytes}

VisitOutcomes(r, n) ==
    {[res |-> "ok", bytes |-> b, cause |-> "",
      next |-> [phase |-> "Active", links |-> l, range |-> r, pos |-> 0]] :
        b \in Chunks, l \in IF n < MaxFetches THEN LinkSeqs ELSE {}}
    \cup {[res |-> "ok", bytes |-> b, cause |-> "",
           next |-> [phase |-> "Done", links |-> <<>>, range |-> r, pos |-> 0]] : b \in Chunks}
    \cup {[res |-> "err", bytes |-> <<>>, cause |-> e,
           next |-> [phase |-> "Failed", links |-> <<>>, range |-> r, pos |-> 0]] : e \in WalkCauses}

\* FileVisit::pending_links: (first, remaining).
PendingLinks(v) == <<Head(v.links), Tail(v.links)>>

----------------------------------------------------------------------------
\* A deterministic BlockSource and the visitor on the blocks it holds.

\* The blocks of FileStore: a leaf carries file bytes, a node links to its children and
\* gives their sizes, "bad" does not decode, "missing" cannot be loaded.
Leaf(b) == [kind |-> "leaf", bytes |-> b, links |-> <<>>, sizes |-> <<>>]

Node(l, z) == [kind |-> "node", bytes |-> <<>>, links |-> l, sizes |-> z]

Opaque(k) == [kind |-> k, bytes |-> <<>>, links |-> <<>>, sizes |-> <<>>]

\* Qr: three leaves, the middle one empty; Qs: a single-block file; Qx: second child
\* missing; Qy: second child undecodable; Qm: missing.
FileCids == {"Qr", "Qs", "Qx", "Qy", "Qm", "Qa", "Qe", "Qb", "Qz"}

FileRoots == {"Qr", "Qs", "Qx", "Qy", "Qm"}

FileStore ==
    [c \in FileCids |->
        CASE c = "Qr" -> Node(<<"Qa", "Qe", "Qb">>, <<2, 0, 1>>)
          [] c = "Qx" -> Node(<<"Qa", "Qm">>, <<2, 1>>)
          [] c = "Qy" -> Node(<<"Qa", "Qz">>, <<2, 1>>)
          [] c = "Qs" -> Leaf(<<1, 2>>)
          [] c = "Qa" -> Leaf(<<1, 2>>)
          [] c = "Qe" -> Leaf(<<>>)
          [] c = "Qb" -> Leaf(<<3>>)
          [] c = "Qz" -> Opaque("bad")
          [] OTHER -> Opaque("missing")]

\* Length of the file below a root block.
RECURSIVE Sum(_)
Sum(z) == IF z = <<>> THEN 0 ELSE Head(z) + Sum(Tail(z))

FileLen(c) ==
    IF FileStore[c].kind = "node" THEN Sum(FileStore[c].sizes) ELSE Len(FileStore[c].bytes)

\* The ranges asked of a file: none, or start..end within the longest file.
FileRanges ==
    {NoRange} \cup {r \in [some : {TRUE}, start : 0..2, end : 1..3] : r.start < r.end}

Max(a, b) == IF a > b THEN a ELSE b

Min(a, b) == IF a < b THEN a ELSE b

\* The bytes at file offsets off .. off + Len(bytes) that lie in range r.
Restrict(bytes, off, r) ==
    IF ~r.some THEN bytes
    ELSE LET lo == Max(r.start - off, 0)
             hi == Min(r.end - off, Len(bytes))
         IN IF lo < hi THEN SubSeq(bytes, lo + 1, hi) ELSE <<>>

\* The children of a node that hold bytes of range r (all children without a range),
\* in file order.
Wanted(node, r) ==
    LET n == Len(node.links)
        off(k) == Sum(SubSeq(node.sizes, 1, k - 1))
        hit(k) == \/ ~r.some
                  \/ Max(r.start, off(k)) < Min(r.end, off(k) + node.sizes[k])
    IN SelectSeq([k \in 1..n |-> k], hit)

\* start (op = "start") and continue_walk (op = "continue") on state v and block data:
\* the chunk is the block's file bytes restricted to the range, the continuation holds
\* the children still to visit and the file offset of the first of them.
FileWalk(op, v, data) ==
    LET fail == [res |-> "err", bytes |-> <<>>, cause |-> "badnode",
                 next |-> [phase |-> "Failed", links |-> <<>>, range |-> v.range,
                           pos |-> 0]]
        ok(b, l, p) ==
            [res |-> "ok", bytes |-> b, cause |-> "",
             next |-> [phase |-> IF l = <<>> THEN "Done" ELSE "Active", links |-> l,
                       range |-> v.range, pos |-> IF l = <<>> THEN 0 ELSE p]]
    IN
    IF op = "start" /\ data.kind = "leaf"
    THEN ok(Restrict(data.bytes, 0, v.range), <<>>, 0)
    ELSE IF op = "start" /\ data.kind = "node"
    THEN LET w == Wanted(data, v.range) IN
         ok(<<>>, [i \in 1..Len(w) |-> data.links[w[i]]],
            IF w = <<>> THEN 0 ELSE Sum(SubSeq(data.sizes, 1, w[1] - 1)))
    ELSE IF op = "continue" /\ data.kind = "leaf"
    THEN ok(Restrict(data.bytes, v.pos, v.range), Tail(v.links), v.pos + Len(data.bytes))
    ELSE fail

\* get_block(c): the causes it may fail with and the blocks it may give.
FetchErrs(c) ==
    IF source = "any" THEN LoadCauses
    ELSE IF FileStore[c].kind = "missing" THEN {"notfound"} ELSE {}

FetchOks(c) ==
    IF source = "any" THEN {[cid |-> e, data |-> Opaque("any")] : e \in Cids}
    ELSE IF FileStore[c].kind = "missing" THEN {}
    ELSE {[cid |-> c, data |-> FileStore[c]]}

\* What the visitor may return for op on state v and the fetched block, after n fetches.
Outcomes(op, v, block, n) ==
    IF source = "any" THEN VisitOutcomes(v.range, n) ELSE {FileWalk(op, v, block.data)}

----------------------------------------------------------------------------
\* Pieces of the generator.

\* The stream is lazy: the generator makes progress only inside the consumer's poll.
RunningEager == consumer # "dropped"

RunningDetached == consumer # "idle"

Running == consumer = "pulling"

\* The loop fetches exactly the first pending link (line 66: `let (next, _) = ...`).
FetchTargetsAll(v) == v.links

FetchTargetsUnordered(v) == IF who = 1 THEN <<Head(v.links)>> ELSE <<v.links[Len(v.links)]>>

FetchTargets(v) == <<PendingLinks(v)[1]>>

Pending(targets) ==
    [i \in 1..Len(targets) |-> [cid |-> targets[i], res |-> "pending", cause |-> ""]]

\* The oldest in-flight call of the log completes with res (and cause).
Settled(log, infl, res, e) ==
    [log EXCEPT ![Len(log) - Len(infl) + 1] = [cid |-> @.cid, res |-> res, cause |-> e]]

\* The binding of line 38 lives until the generator returns; the binding of line 69
\* is dropped at the end of each loop iteration.
RootOnly(blocks) == IF blocks = <<>> THEN <<>> ELSE <<Head(blocks)>>

NoPull == [fetches |-> 0, visits |-> 0, items |-> 0, skips |-> 0]

\* `return` (or falling off the end): the generator is done, poll_next gives None.
Return(log, infl, pl) ==
    /\ pc' = "done"
    /\ ended' = TRUE
    /\ consumer' = "idle"
    /\ held' = <<>>
    /\ inflight' = infl
    /\ fetchLog' = log
    /\ pull' = pl

\* `yield item` at line p: poll_next gives Some(item), the generator stays suspended there.
Yield(item, p, log, infl, blocks, pl) ==
    /\ emitted' = Append(emitted, item)
    /\ pc' = p
    /\ consumer' = "idle"
    /\ held' = blocks
    /\ inflight' = infl
    /\ fetchLog' = log
    /\ pull' = [pl EXCEPT !.items = @ + 1]
    /\ UNCHANGED ended

\* As Continue, but the loop gives up after two blocks.
ContinueCapped(v, log, infl, blocks, pl) ==
    IF v.phase = "Active" /\ Len(log) < 2
    THEN LET t == FetchTargets(v) IN
         /\ pc' = "await69"
         /\ inflight' = infl \o t
         /\ fetchLog' = log \o Pending(t)
         /\ held' = RootOnly(blocks)
         /\ pull' = [pl EXCEPT !.fetches = @ + Len(t)]
         /\ UNCHANGED <<consumer, ended>>
    ELSE Return(log, infl, pl)

\* Lines 53-56 and 84-87, then 64-69: with Some(v) (re-)enter the loop and issue the
\* fetch of the next link; with None return.
Continue(v, log, infl, blocks, pl) ==
    IF v.phase = "Active"
    THEN LET t == FetchTargets(v) IN
         /\ pc' = "await69"
         /\ inflight' = infl \o t
         /\ fetchLog' = log \o Pending(t)
         /\ held' = RootOnly(blocks)
         /\ pull' = [pl EXCEPT !.fetches = @ + Len(t)]
         /\ UNCHANGED <<consumer, ended>>
    ELSE Return(log, infl, pl)

\* Lines 49 and 79: `if !bytes.is_empty()` guards the yield of a chunk.
SkipsNever(bytes) == FALSE

Skips(bytes) == bytes = <<>>

\* Lines 50 and 81: the chunk yielded for the bytes of a step, `bytes.to_vec()`.
ToYieldSkipRoot(op, bytes) == IF op = "start" THEN <<>> ELSE bytes

ToYield(op, bytes) == bytes

\* Lines 59 and 90: the error yielded when the visitor fails on the block with cid c.
WalkFailureAsLoading(c, e) == Loading(c, e)

WalkFailureRequested(c, e) == Walking(fetchLog[Len(fetchLog)].cid, e)

WalkFailure(c, e) == Walking(c, e)

\* Lines 47, 53-56 and 77, 84-87: start and continue_walk take the state by value; what
\* they return replaces it.
NextVisitKeptOnFailure(v, o) == IF o.res = "err" THEN v ELSE o.next

NextVisit(v, o) == o.next

\* The visitor step on a fetched block and what the generator does with its result
\* (lines 47-62 with op = "start", lines 77-93 with op = "continue").
Step(op, blockCid, o, yOk, yErr, log, infl, blocks) ==
    LET out == ToYield(op, o.bytes)
        pl == [pull EXCEPT !.visits = @ + 1,
                           !.skips = @ + (IF o.res = "ok" /\ Skips(out)
                                             /\ o.next.phase = "Active" THEN 1 ELSE 0)]
    IN
    /\ visit' = NextVisit(visit, o)
    /\ visits' = visits + 1
    /\ walked' = walked \o o.bytes
    /\ lastVisit' = [op |-> op, cid |-> blockCid, res |-> o.res, bytes |-> o.bytes,
                     cause |-> o.cause]
    /\ IF o.res = "err"
       THEN Yield(WalkFailure(blockCid, o.cause), yErr, log, infl, blocks, pl)
       ELSE IF ~Skips(out)
            THEN Yield(OkItem(out), yOk, log, infl, blocks, pl)
            ELSE emitted' = emitted /\ Continue(o.next, log, infl, blocks, pl)

----------------------------------------------------------------------------
NotInspected == [done |-> FALSE, some |-> FALSE, cause |-> ""]

\* One invocation of cat before its first poll.
Fresh ==
    /\ pc = "start"
    /\ consumer = "idle"
    /\ visit = NoVisit
    /\ held = <<>>
    /\ inflight = <<>>
    /\ fetchLog = <<>>
    /\ emitted = <<>>
    /\ ended = FALSE
    /\ lastVisit = [op |-> "none", cid |-> "", res |-> "", bytes |-> <<>>, cause |-> ""]
    /\ visits = 0
    /\ walked = <<>>
    /\ pull = NoPull
    /\ inspected = NotInspected

\* The owned variables of the current invocation, and of invocation i.
Me ==
    [cid |-> cid, range |-> range, pc |-> pc, consumer |-> consumer, visit |-> visit,
     held |-> held, inflight |-> inflight, fetchLog |-> fetchLog, emitted |-> emitted,
     ended |-> ended, lastVisit |-> lastVisit, visits |-> visits, walked |-> walked,
     pull |-> pull, inspected |-> inspected]

Inst(i) == IF who = i THEN Me ELSE other

\* A single invocation of cat on a BlockSource and a visitor that may do anything.
Init ==
    /\ cid \in Cids
    /\ range \in RangeOpts
    /\ Fresh
    /\ source = "any"
    /\ who = 1
    /\ other = Me

\* The consumer asks for the next item.
Pull ==
    /\ consumer = "idle"
    /\ consumer' = "pulling"
    /\ pull' = NoPull
    /\ UNCHANGED <<cid, range, pc, visit, held, inflight, fetchLog, emitted, ended,
                   lastVisit, visits, walked>>
    /\ UNCHANGED aside

\* The consumer drops the stream: the generator, its visitor state, its blocks and a
\* pending get_block future are dropped with it.
Abandon ==
    /\ consumer \in {"idle", "pulling"}
    /\ consumer' = "dropped"
    /\ visit' = NoVisit
    /\ held' = <<>>
    /\ inflight' = <<>>
    /\ fetchLog' = [i \in 1..Len(fetchLog) |->
                       IF fetchLog[i].res = "pending"
                       THEN [fetchLog[i] EXCEPT !.res = "dropped"] ELSE fetchLog[i]]
    /\ UNCHANGED <<cid, range, pc, emitted, ended, lastVisit, visits, walked, pull>>
    /\ UNCHANGED aside

\* Lines 30-38: first poll; build the idle visitor and ask for the root block.
Begin ==
    /\ Running
    /\ pc = "start"
    /\ visit' = IdleVisit(range)
    /\ pc' = "await38"
    /\ inflight' = inflight \o <<cid>>
    /\ fetchLog' = fetchLog \o Pending(<<cid>>)
    /\ pull' = [pull EXCEPT !.fetches = @ + 1]
    /\ UNCHANGED <<cid, range, consumer, held, emitted, ended, lastVisit, visits, walked>>
    /\ UNCHANGED aside

\* Lines 38-43: get_block(&cid) gives Err(e).
RootLoadFails ==
    /\ Running
    /\ pc = "await38"
    /\ \E e \in FetchErrs(cid) :
        Yield(Loading(cid, e), "yield41", Settled(fetchLog, inflight, "err", e),
              Tail(inflight), held, pull)
    /\ UNCHANGED <<cid, range, visit, lastVisit, visits, walked>>
    /\ UNCHANGED aside

\* Lines 38-62: get_block(&cid) gives Ok(Block { cid, data }); visit.start(&data).
RootLoaded ==
    /\ Running
    /\ pc = "await38"
    /\ \E b \in FetchOks(cid) :
        \E o \in Outcomes("start", visit, b, Len(fetchLog)) :
            Step("start", b.cid, o, "yield50", "yield59",
                 Settled(fetchLog, inflight, "ok", ""), Tail(inflight),
                 Append(held, b.cid))
    /\ UNCHANGED <<cid, range>>
    /\ UNCHANGED aside

\* Lines 69-74: get_block(&next) gives Err(e).
ChildLoadFails ==
    /\ Running
    /\ pc = "await69"
    /\ \E e \in FetchErrs(PendingLinks(visit)[1]) :
        Yield(Loading(PendingLinks(visit)[1], e), "yield72",
              Settled(fetchLog, inflight, "err", e), Tail(inflight), held, pull)
    /\ UNCHANGED <<cid, range, visit, lastVisit, visits, walked>>
    /\ UNCHANGED aside

\* Lines 69-93: get_block(&next) gives Ok(Block { cid, data }); visit.continue_walk(&data).
ChildLoaded ==
    /\ Running
    /\ pc = "await69"
    /\ \E b \in FetchOks(PendingLinks(visit)[1]) :
        \E o \in Outcomes("continue", visit, b, Len(fetchLog)) :
            Step("continue", b.cid, o, "yield81", "yield90",
                 Settled(fetchLog, inflight, "ok", ""), Tail(inflight),
                 Append(held, b.cid))
    /\ UNCHANGED <<cid, range>>
    /\ UNCHANGED aside

\* Pulled again after yielding a chunk (lines 50, 81): match the continuation.
ResumeAfterChunk ==
    /\ Running
    /\ pc \in {"yield50", "yield81"}
    /\ Continue(visit, fetchLog, inflight, held, pull)
    /\ UNCHANGED <<cid, range, visit, emitted, lastVisit, visits, walked>>
    /\ UNCHANGED aside

\* As ResumeAfterError, but a failed fetch of the root block is tried again.
ResumeAfterErrorRetryRoot ==
    /\ Running
    /\ pc \in {"yield41", "yield59", "yield72", "yield90"}
    /\ IF pc = "yield41"
       THEN /\ pc' = "await38"
            /\ inflight' = inflight \o <<cid>>
            /\ fetchLog' = fetchLog \o Pending(<<cid>>)
            /\ pull' = [pull EXCEPT !.fetches = @ + 1]
            /\ UNCHANGED <<consumer, ended, held>>
       ELSE Return(fetchLog, inflight, pull)
    /\ UNCHANGED <<cid, range, visit, emitted, lastVisit, visits, walked>>
    /\ UNCHANGED aside

\* As ResumeAfterError, but a failed fetch of a child block is tried again (`continue`).
ResumeAfterErrorRetry ==
    /\ Running
    /\ pc \in {"yield41", "yield59", "yield72", "yield90"}
    /\ IF pc = "yield72"
       THEN Continue(visit, fetchLog, inflight, held, pull)
       ELSE Return(fetchLog, inflight, pull)
    /\ UNCHANGED <<cid, range, visit, emitted, lastVisit, visits, walked>>
    /\ UNCHANGED aside

\* Pulled again after yielding an error (lines 41, 59, 72, 90): `return`.
ResumeAfterError ==
    /\ Running
    /\ pc \in {"yield41", "yield59", "yield72", "yield90"}
    /\ Return(fetchLog, inflight, pull)
    /\ UNCHANGED <<cid, range, visit, emitted, lastVisit, visits, walked>>
    /\ UNCHANGED aside

\* As PollEnd, but polling the finished stream runs the generator from the top again.
PollEndRestart ==
    /\ Running
    /\ pc = "done"
    /\ pc' = "start"
    /\ UNCHANGED <<cid, range, consumer, visit, held, inflight, fetchLog, emitted, ended,
                   lastVisit, visits, walked, pull>>
    /\ UNCHANGED aside

\* Pulled after the generator has returned: poll_next gives None again.
PollEnd ==
    /\ Running
    /\ pc = "done"
    /\ Return(fetchLog, inflight, pull)
    /\ UNCHANGED <<cid, range, visit, emitted, lastVisit, visits, walked>>
    /\ UNCHANGED aside

\* The consumer asks the error item it received last for its source().
Inspect ==
    /\ consumer = "idle"
    /\ emitted # <<>>
    /\ IsErr(emitted[Len(emitted)])
    /\ ~inspected.done
    /\ inspected' = [done |-> TRUE, some |-> Source(emitted[Len(emitted)]).some,
                     cause |-> Source(emitted[Len(emitted)]).cause]
    /\ UNCHANGED <<cid, range, pc, consumer, visit, held, inflight, fetchLog, emitted,
                   ended, lastVisit, visits, walked, pull, source, who, other>>

Next ==
    \/ Pull
    \/ Abandon
    \/ Begin
    \/ RootLoadFails
    \/ RootLoaded
    \/ ChildLoadFails
    \/ ChildLoaded
    \/ ResumeAfterChunk
    \/ ResumeAfterError
    \/ PollEnd
    \/ Inspect

Spec == Init /\ [][Next]_vars

\* The consumer keeps pulling, every poll runs the generator and every get_block call
\* completes.
LiveSpec ==
    /\ Init
    /\ [][Next]_vars
    /\ WF_vars(Pull)
    /\ WF_vars(Begin)
    /\ WF_vars(RootLoadFails \/ RootLoaded)
    /\ WF_vars(ChildLoadFails \/ ChildLoaded)
    /\ WF_vars(ResumeAfterChunk)
    /\ WF_vars(ResumeAfterError)

----------------------------------------------------------------------------
\* Two invocations of cat on one deterministic BlockSource.

\* As Switch, but the two invocations use one visitor state between them.
SwitchSharedVisit ==
    /\ who' = 3 - who
    /\ other' = Me
    /\ cid' = other.cid
    /\ range' = other.range
    /\ pc' = other.pc
    /\ consumer' = other.consumer
    /\ visit' = visit
    /\ held' = other.held
    /\ inflight' = other.inflight
    /\ fetchLog' = other.fetchLog
    /\ emitted' = other.emitted
    /\ ended' = other.ended
    /\ lastVisit' = other.lastVisit
    /\ visits' = other.visits
    /\ walked' = other.walked
    /\ pull' = other.pull
    /\ inspected' = other.inspected
    /\ UNCHANGED source

\* The next step is taken by the other invocation: each stream owns its generator's
\* locals (lines 29-38), the two share only the BlockSource.
Switch ==
    /\ who' = 3 - who
    /\ other' = Me
    /\ cid' = other.cid
    /\ range' = other.range
    /\ pc' = other.pc
    /\ consumer' = other.consumer
    /\ visit' = other.visit
    /\ held' = other.held
    /\ inflight' = other.inflight
    /\ fetchLog' = other.fetchLog
    /\ emitted' = other.emitted
    /\ ended' = other.ended
    /\ lastVisit' = other.lastVisit
    /\ visits' = other.visits
    /\ walked' = other.walked
    /\ pull' = other.pull
    /\ inspected' = other.inspected
    /\ UNCHANGED source

\* Invocation 1 is cat(cid, range); invocation 2 is on any root, with the same range or
\* with none.
InitTwo ==
    /\ cid \in FileRoots
    /\ range \in FileRanges
    /\ Fresh
    /\ source = "file"
    /\ who = 1
    /\ other \in {[Me EXCEPT !.cid = c, !.range = r] : c \in FileRoots, r \in {range, NoRange}}

NextTwo ==
    \/ Next
    \/ Switch

SpecTwo == InitTwo /\ [][NextTwo]_vars

----------------------------------------------------------------------------
\* Properties.

ErrYields == {"yield41", "yield59", "yield72", "yield90"}

NoErrItem == \A i \in 1..Len(emitted) : ~IsErr(emitted[i])

Last(q) == q[Len(q)]

\* The bytes of the emitted chunks, concatenated in emission order.
RECURSIVE Flat(_)
Flat(items) == IF items = <<>> THEN <<>> ELSE items[1].bytes \o Flat(Tail(items))

PendingCount == Cardinality({i \in 1..Len(fetchLog) : fetchLog[i].res = "pending"})

\* C1: the consumer sees successful chunks, then at most one error item, then the end:
\* an error item is always the last item, after it the generator only returns, the end
\* is reported only by a generator that has returned, and when the visitor returned no
\* continuation no error item is ever emitted.
C1_ChunksThenOneError ==
    /\ \A i \in 1..Len(emitted) : IsErr(emitted[i]) => i = Len(emitted)
    /\ (emitted # <<>> /\ IsErr(Last(emitted))) => pc \in ErrYields \cup {"done"}
    /\ ended => pc = "done"
    /\ (lastVisit.res = "ok" /\ visit.phase = "Done") => NoErrItem

C1_Witness ==
    /\ ended
    /\ Len(emitted) = 3
    /\ IsErr(emitted[3])
    /\ emitted[1].kind = "Ok" /\ emitted[2].kind = "Ok"

\* C2: when the traversal has ended without an error, the emitted chunks concatenated
\* in emission order are the chunks the visitor returned, concatenated in step order.
C2_EmittedIsWalked == (pc = "done" /\ NoErrItem) => Flat(emitted) = walked

C2_Witness ==
    /\ pc = "done" /\ NoErrItem
    /\ visits = 3
    /\ Len(emitted) = 2
    /\ emitted[1].bytes # emitted[2].bytes

\* C3: no Ok item carries an empty chunk, and a visitor step that returns an empty chunk
\* emits nothing: the generator goes on to the next fetch or returns.
C3_NoEmptyChunk ==
    /\ [](\A i \in 1..Len(emitted) : emitted[i].kind = "Ok" => emitted[i].bytes # <<>>)
    /\ [][(visits' = visits + 1 /\ lastVisit'.res = "ok" /\ lastVisit'.bytes = <<>>)
            => (emitted' = emitted /\ pc' \in {"await69", "done"})]_vars

C3_Witness ==
    /\ lastVisit.res = "ok" /\ lastVisit.bytes = <<>>
    /\ lastVisit.op = "continue"
    /\ pc = "await69"
    /\ Len(emitted) = 1

\* C4: at most one get_block call is issued and not yet completed or abandoned.
C4_OneFetchInFlight == Len(inflight) <= 1 /\ PendingCount = Len(inflight)

C4_Witness ==
    /\ Len(inflight) = 1
    /\ Len(fetchLog) = 3
    /\ Len(visit.links) = 2

\* C5 as stated: a pull performs at most one fetch and at most one visitor step and
\* yields at most one item.
C5_OneFetchPerPull == pull.fetches <= 1 /\ pull.visits <= 1 /\ pull.items <= 1

\* C5, amended: a pull yields at most one item and performs one fetch and one visitor
\* step, plus one more of each for every empty chunk the visitor returned together with
\* a continuation during that pull.
C5_OneFetchPerPullOrSkip ==
    /\ pull.items <= 1
    /\ pull.fetches <= 1 + pull.skips
    /\ pull.visits <= 1 + pull.skips
    /\ pull.visits <= pull.fetches + 1

C5_Witness ==
    /\ pull.skips = 1
    /\ pull.fetches = 2
    /\ pull.visits = 2
    /\ pull.items = 1
    /\ lastVisit.op = "continue"

\* C6: when the fetch of the root block fails, the only item ever emitted is
\* Loading(cid, cause) with the cid given to cat, the visitor is never started, the
\* root fetch stays the only fetch, and the generator only returns.
C6_RootLoadFailure ==
    (fetchLog # <<>> /\ fetchLog[1].res = "err") =>
        /\ Len(emitted) = 1
        /\ emitted[1].kind = "Loading"
        /\ emitted[1].cid = cid
        /\ emitted[1].cause = fetchLog[1].cause
        /\ Len(fetchLog) = 1
        /\ fetchLog[1].cid = cid
        /\ visits = 0
        /\ lastVisit.op = "none"
        /\ pc \in {"yield41", "done"}

C6_Witness ==
    /\ fetchLog # <<>>
    /\ fetchLog[1].res = "err"
    /\ ended
    /\ consumer = "pulling"

\* C7: when the visitor fails on the block with cid X after K chunks were emitted, the
\* items are those K chunks and then Walking(X, cause); nothing is emitted and nothing
\* is fetched afterwards, and the generator only returns.
C7_WalkFailure ==
    /\ [](lastVisit.res = "err" =>
            /\ emitted # <<>>
            /\ Last(emitted).kind = "Walking"
            /\ Last(emitted).cid = lastVisit.cid
            /\ Last(emitted).cause = lastVisit.cause
            /\ \A i \in 1..(Len(emitted) - 1) : emitted[i].kind = "Ok"
            /\ Flat(emitted) = walked
            /\ inflight = <<>>
            /\ pc \in {"yield59", "yield90", "done"})
    /\ [][(lastVisit.res # "err" /\ lastVisit'.res = "err") =>
            /\ SubSeq(emitted', 1, Len(emitted)) = emitted
            /\ Len(emitted') = Len(emitted) + 1
            /\ Len(fetchLog') = Len(fetchLog)]_vars
    /\ [][lastVisit.res = "err" =>
            (emitted' = emitted /\ fetchLog' = fetchLog /\ visits' = visits)]_vars

C7_Witness ==
    /\ lastVisit.res = "err"
    /\ lastVisit.op = "continue"
    /\ Len(emitted) = 3
    /\ ended

\* C8: when the fetch of a child block fails, the item emitted is Loading(childId, cause)
\* with childId the first pending link of the current visitor state; the failed fetch is
\* the last fetch, no visitor step is run for it, and every child fetch is a single
\* fetch of the first pending link.
C8_ChildLoadFailure ==
    /\ [](\A i \in 2..Len(fetchLog) : fetchLog[i].res = "err" =>
            /\ i = Len(fetchLog)
            /\ emitted # <<>>
            /\ Last(emitted).kind = "Loading"
            /\ Last(emitted).cid = fetchLog[i].cid
            /\ Last(emitted).cause = fetchLog[i].cause
            /\ visits = i - 1
            /\ lastVisit.res = "ok"
            /\ pc \in {"yield72", "done"}
            /\ (consumer # "dropped" =>
                   (visit.links # <<>> /\ fetchLog[i].cid = Head(visit.links))))
    /\ [][(Len(fetchLog') > Len(fetchLog) /\ fetchLog # <<>>) =>
            /\ Len(fetchLog') = Len(fetchLog) + 1
            /\ visit'.links # <<>>
            /\ Last(fetchLog').cid = Head(visit'.links)]_vars

C8_Witness ==
    /\ Len(fetchLog) = 3
    /\ fetchLog[3].res = "err"
    /\ Len(visit.links) = 2
    /\ Len(emitted) = 2
    /\ ended

\* C9: once the consumer has dropped the stream, no fetch is issued, no visitor step is
\* run and no item is emitted.
C9_CancellationSafety ==
    [][consumer = "dropped" =>
        /\ Len(fetchLog') = Len(fetchLog)
        /\ visits' = visits
        /\ emitted' = emitted
        /\ consumer' = "dropped"]_vars

C9_Witness ==
    /\ consumer = "dropped"
    /\ pc = "yield81"
    /\ Len(emitted) = 2
    /\ Len(fetchLog) = 2

\* C10 as stated: a fetch is in flight only while a pull is outstanding, none is issued
\* before the first pull, and the generator owns at most one fetched block and hands out
\* at most one item per pull.
C10_Backpressure ==
    /\ pc = "start" => fetchLog = <<>>
    /\ inflight # <<>> => consumer = "pulling"
    /\ Len(held) <= 1
    /\ pull.items <= 1

\* C10, as the code has it: the pull-driven part holds, and the generator owns at most
\* two fetched blocks: the root block, which it keeps until it returns, and the block of
\* the current loop iteration.
C10_BackpressureTwoBlocks ==
    /\ [](pc = "start" => fetchLog = <<>>)
    /\ [](Len(held) <= 2 /\ pull.items <= 1)
    /\ [](Len(held) + Len(inflight) <= 2)
    /\ [][Len(fetchLog') > Len(fetchLog) => consumer = "pulling"]_vars
    /\ [][consumer = "idle" => (fetchLog' = fetchLog \/ consumer' = "dropped")]_vars

C10_Witness ==
    /\ Len(held) = 2
    /\ consumer = "idle"
    /\ pc = "yield81"
    /\ Len(fetchLog) = 3

\* C11: the range is given to the visitor before the root block is asked for and the
\* visitor state keeps it; and for the same multi-block file, cat with a range a..b
\* within the file emits b - a bytes, the bytes a..b of what cat without a range emits.
C11_RangeIsSubrange ==
    /\ \A i \in {1, 2} :
        /\ Inst(i).visit.phase # "None" => Inst(i).visit.range = Inst(i).range
        /\ (Inst(i).fetchLog # <<>> /\ Inst(i).consumer # "dropped")
               => Inst(i).visit.phase # "None"
    /\ LET a == Inst(1)
           b == Inst(2)
       IN (/\ a.cid = b.cid
           /\ FileStore[a.cid].kind = "node"
           /\ a.range.some /\ a.range.end <= FileLen(a.cid)
           /\ ~b.range.some
           /\ a.pc = "done" /\ b.pc = "done"
           /\ \A k \in 1..Len(a.emitted) : ~IsErr(a.emitted[k])
           /\ \A k \in 1..Len(b.emitted) : ~IsErr(b.emitted[k]))
          => /\ Len(Flat(a.emitted)) = a.range.end - a.range.start
             /\ Flat(a.emitted) = SubSeq(Flat(b.emitted), a.range.start + 1, a.range.end)

C11_Witness ==
    /\ Inst(1).cid = "Qr" /\ Inst(2).cid = "Qr"
    /\ Inst(1).range = [some |-> TRUE, start |-> 1, end |-> 3]
    /\ Inst(2).range = NoRange
    /\ Inst(1).pc = "done" /\ Inst(2).pc = "done"
    /\ Flat(Inst(1).emitted) = <<2, 3>>
    /\ Flat(Inst(2).emitted) = <<1, 2, 3>>
    /\ Len(Inst(1).fetchLog) = 3 /\ Len(Inst(2).fetchLog) = 4

\* C12: when start on the root block returns no continuation, the items are the chunk it
\* returned (none if that chunk is empty), no error follows, and the root fetch is the
\* only fetch.
C12_SingleBlockFile ==
    (lastVisit.op = "start" /\ lastVisit.res = "ok" /\ visit.phase = "Done") =>
        /\ Len(fetchLog) = 1
        /\ fetchLog[1].res = "ok"
        /\ visits = 1
        /\ Len(emitted) = (IF lastVisit.bytes = <<>> THEN 0 ELSE 1)
        /\ \A i \in 1..Len(emitted) :
              emitted[i].kind = "Ok" /\ emitted[i].bytes = lastVisit.bytes
        /\ pc \in {"yield50", "done"}
        /\ (lastVisit.bytes = <<>> => ended)

C12_Witness ==
    /\ lastVisit.op = "start" /\ lastVisit.res = "ok" /\ visit.phase = "Done"
    /\ ended
    /\ Len(emitted) = 1
    /\ emitted[1].bytes = <<2>>

\* C15: source() of a Walking error is its cause, the failure the visitor reported;
\* source() of a Loading error is none.
C15_SourceOfError ==
    inspected.done =>
        /\ emitted # <<>>
        /\ IsErr(Last(emitted))
        /\ Last(emitted).kind = "Walking" =>
              /\ inspected.some
              /\ inspected.cause = Last(emitted).cause
              /\ inspected.cause = lastVisit.cause
        /\ Last(emitted).kind = "Loading" => ~inspected.some

C15_Witness ==
    /\ inspected.done
    /\ inspected.some
    /\ inspected.cause = "badnode"
    /\ Last(emitted).kind = "Walking"
    /\ Len(emitted) = 2

\* C16: fetches and visitor steps alternate: every fetched block has been given to the
\* visitor when the next fetch is issued, every chunk returned so far has been emitted
\* by then, and the fetch issued is a single one, of the first pending link of the
\* current visitor state.
C16_StrictAlternation ==
    /\ [](/\ Len(fetchLog) <= visits + 1
          /\ Cardinality({i \in 1..Len(fetchLog) : fetchLog[i].res = "ok"}) = visits
          /\ (pc = "await69" /\ consumer # "dropped") =>
                /\ visit.links # <<>>
                /\ Last(fetchLog).cid = Head(visit.links)
                /\ Flat(emitted) = walked)
    /\ [][Len(fetchLog') > Len(fetchLog) =>
            /\ Len(fetchLog') = Len(fetchLog) + 1
            /\ \A i \in 1..Len(fetchLog) : fetchLog'[i].res = "ok"
            /\ visits' = Len(fetchLog)
            /\ Flat(emitted') = walked'
            /\ fetchLog # <<>> =>
                  (visit'.links # <<>> /\ Last(fetchLog').cid = Head(visit'.links))]_vars

C16_Witness ==
    /\ pc = "await69"
    /\ Len(fetchLog) = 3
    /\ visits = 2
    /\ Len(emitted) = 2
    /\ Len(visit.links) = 2
    /\ fetchLog[2].cid # fetchLog[3].cid

\* C17: start runs once, on the idle state, and every later step is continue_walk on
\* the active state; a step replaces the state by what it returned, a failed step
\* leaves no state, and once the visitor returned no continuation or failed, no visitor
\* operation runs and no pending link is fetched.
C17_OneLiveVisitorState ==
    /\ [](/\ (visits = 0) <=> (lastVisit.op = "none")
          /\ (visits = 1) <=> (lastVisit.op = "start")
          /\ (visits >= 2) <=> (lastVisit.op = "continue")
          /\ visit.phase = "Idle" => (visits = 0 /\ pc \in {"await38", "yield41", "done"})
          /\ lastVisit.res = "err" => visit.phase \in {"Failed", "None"}
          /\ (pc = "await69" /\ consumer # "dropped") => visit.phase = "Active")
    /\ [][visits' # visits =>
            /\ visits' = visits + 1
            /\ \/ visit.phase = "Idle" /\ lastVisit'.op = "start"
               \/ visit.phase = "Active" /\ lastVisit'.op = "continue"
            /\ visit'.phase \in {"Active", "Done", "Failed"}]_vars
    /\ [][visit.phase \in {"Done", "Failed"} =>
            /\ visits' = visits
            /\ Len(fetchLog') = Len(fetchLog)
            /\ visit' \in {visit, NoVisit}]_vars

C17_Witness ==
    /\ visits = 3
    /\ lastVisit.op = "continue"
    /\ visit.phase = "Done"
    /\ ended
    /\ consumer = "pulling"

\* C18: a Loading error carries the cid asked of the BlockSource (the cid given to cat
\* for the root, the first pending link for a child); a Walking error carries the cid
\* inside the block the BlockSource gave; so an error names the cid asked for last
\* exactly when it is a Loading error or the BlockSource gave a block with that cid.
C18_ErrorIdentifier ==
    (emitted # <<>> /\ IsErr(Last(emitted))) =>
        /\ fetchLog # <<>>
        /\ Last(emitted).kind = "Loading" =>
              /\ Last(fetchLog).res = "err"
              /\ Last(emitted).cid = Last(fetchLog).cid
              /\ Len(fetchLog) = 1 => Last(emitted).cid = cid
              /\ (Len(fetchLog) > 1 /\ consumer # "dropped") =>
                    Last(emitted).cid = Head(visit.links)
        /\ Last(emitted).kind = "Walking" =>
              /\ Last(fetchLog).res = "ok"
              /\ Last(emitted).cid = lastVisit.cid
        /\ (Last(emitted).cid = Last(fetchLog).cid) <=>
              (Last(emitted).kind = "Loading" \/ lastVisit.cid = Last(fetchLog).cid)

C18_Witness ==
    /\ emitted # <<>>
    /\ Last(emitted).kind = "Walking"
    /\ Len(fetchLog) = 2
    /\ Last(emitted).cid # Last(fetchLog).cid
    /\ Last(emitted).cid = "Qa"

\* C19: when the consumer keeps pulling and every fetch completes, the sequence reaches
\* its end (unless the consumer drops it); and the generator returns only after the
\* visitor returned no continuation or after an error item, whatever the number of
\* blocks fetched.
C19_Termination ==
    /\ <>(ended \/ consumer = "dropped")
    /\ [][(pc # "done" /\ pc' = "done") =>
            (visit'.phase = "Done" \/ pc \in ErrYields)]_vars
    /\ []((ended /\ consumer # "dropped") =>
            (visit.phase = "Done" \/ (emitted # <<>> /\ IsErr(Last(emitted)))))

C19_Witness ==
    /\ ended
    /\ NoErrItem
    /\ visit.phase = "Done"
    /\ Len(fetchLog) = 3
    /\ visits = 3

\* C20: once the end has been reported, a further pull reports the end again: the
\* generator stays returned, nothing is fetched, no visitor step runs and nothing is
\* emitted.
C20_EndIsAbsorbing ==
    [][ended =>
        /\ ended'
        /\ pc' = "done"
        /\ emitted' = emitted
        /\ fetchLog' = fetchLog
        /\ visits' = visits
        /\ (consumer = "pulling" /\ consumer' # "dropped") => consumer' = "idle"]_vars

C20_Witness ==
    /\ ended
    /\ consumer = "pulling"
    /\ pull = NoPull
    /\ Len(emitted) = 2
    /\ NoErrItem

IsPrefix(p, q) == Len(p) <= Len(q) /\ SubSeq(q, 1, Len(p)) = p

FetchCids(log) == [i \in 1..Len(log) |-> log[i].cid]

\* What cat(c, r) emits and fetches when it runs alone on FileStore and is pulled to
\* its end: the run from the fetch of block c in visitor state v.
RECURSIVE AloneFrom(_, _, _)
AloneFrom(op, v, c) ==
    IF FileStore[c].kind = "missing"
    THEN [items |-> <<Loading(c, "notfound")>>, fetches |-> <<c>>]
    ELSE LET o == FileWalk(op, v, FileStore[c])
             chunk == IF o.bytes = <<>> THEN <<>> ELSE <<OkItem(o.bytes)>>
         IN IF o.res = "err"
            THEN [items |-> <<Walking(c, o.cause)>>, fetches |-> <<c>>]
            ELSE IF o.next.phase = "Active"
            THEN LET rest == AloneFrom("continue", o.next, Head(o.next.links))
                 IN [items |-> chunk \o rest.items, fetches |-> <<c>> \o rest.fetches]
            ELSE [items |-> chunk, fetches |-> <<c>>]

Alone(c, r) == AloneFrom("start", [phase |-> "Idle", links |-> <<>>, range |-> r, pos |-> 0], c)

\* C13: two invocations with the same cid and range on the unchanged FileStore emit the
\* same items and fetch the same cids in the same order: at any time the items (and
\* fetches) of one are a prefix of the other's, and when both have returned they are
\* equal.
C13_Determinism ==
    LET a == Inst(1)
        b == Inst(2)
    IN (a.cid = b.cid /\ a.range = b.range) =>
        /\ IsPrefix(a.emitted, b.emitted) \/ IsPrefix(b.emitted, a.emitted)
        /\ \/ IsPrefix(FetchCids(a.fetchLog), FetchCids(b.fetchLog))
           \/ IsPrefix(FetchCids(b.fetchLog), FetchCids(a.fetchLog))
        /\ Len(a.fetchLog) = Len(b.fetchLog) => Len(a.emitted) - Len(b.emitted) \in {-1, 0, 1}
        /\ (a.pc = "done" /\ b.pc = "done") =>
              /\ a.emitted = b.emitted
              /\ FetchCids(a.fetchLog) = FetchCids(b.fetchLog)
              /\ a.walked = b.walked

C13_Witness ==
    /\ Inst(1).cid = "Qx" /\ Inst(2).cid = "Qx"
    /\ Inst(1).range = NoRange /\ Inst(2).range = NoRange
    /\ Inst(1).ended /\ Inst(2).ended
    /\ Len(Inst(1).emitted) = 2
    /\ Inst(2).emitted[2].kind = "Loading"
    /\ Len(Inst(2).fetchLog) = 3

\* C14: two invocations interleaved at will do not interfere: each emits the items and
\* makes the fetches it makes when run alone, a step of one changes nothing of the
\* other, and handing over between them changes nothing of either.
C14_NoInterference ==
    /\ [](\A i \in {1, 2} :
            LET me == Inst(i)
                ref == Alone(me.cid, me.range)
            IN /\ IsPrefix(me.emitted, ref.items)
               /\ IsPrefix(FetchCids(me.fetchLog), ref.fetches)
               /\ me.pc = "done" =>
                     (me.emitted = ref.items /\ FetchCids(me.fetchLog) = ref.fetches))
    /\ [][who' = who => other' = other]_vars
    /\ [][who' # who => (Inst(1)' = Inst(1) /\ Inst(2)' = Inst(2))]_vars

C14_Witness ==
    /\ Inst(1).cid = "Qr" /\ Inst(2).cid = "Qy"
    /\ Inst(1).pc = "await69" /\ Len(Inst(1).fetchLog) = 3
    /\ Inst(2).pc = "yield81" /\ Len(Inst(2).fetchLog) = 2
    /\ Len(Inst(1).emitted) = 1 /\ Len(Inst(2).emitted) = 1
    /\ who = 2

====
